---- MODULE Spec2Model ----
(***************************************************************************)
(* Model of the two utilities of the repository:                           *)
(*   scripts/apply-policy.py  - the Policy Merger                          *)
(*   skills/code-review/codex-reviewer/scripts/codex_review.py             *)
(*                            - the Review Invoker                         *)
(*                                                                         *)
(* A settings file is a record [state, layout, doc].  state is "absent",   *)
(* "malformed" (bytes that are not JSON), "empty" (truncated by open "w"), *)
(* "partial" (a prefix of a dump) or "text" (a complete JSON text); layout *)
(* is how the text is formatted; doc is the JSON value the text denotes.   *)
(* json.load forgets the layout, json.dump(indent=2) always produces the   *)
(* "pretty" layout.                                                        *)
(***************************************************************************)
EXTENDS Integers, Sequences, FiniteSets, TLC

VARIABLES
    policyFile,   \* policy/user-policy.json
    claudeFile,   \* ~/.claude/settings.local.json
    geminiFile,   \* ~/.gemini/settings.json
    claudeHist,   \* what the calls of ensure_claude_permissions did so far
    geminiHist,   \* what the calls of ensure_gemini_mcp_trust did so far
    pc,           \* position of a run of apply-policy main
    policyMem,    \* main: the loaded policy
    claudeMem,    \* ensure_claude_permissions: the settings in memory
    geminiMem,    \* ensure_gemini_mcp_trust: the settings in memory
    log,          \* main: the file accesses of the run, in order
    rv            \* the last call into the Review Invoker and what it returned

mergerInputs == <<policyFile, claudeFile, geminiFile>>
mergeVars == <<claudeHist, geminiHist>>
mainVars == <<pc, policyMem, claudeMem, geminiMem, log>>
vars == <<policyFile, claudeFile, geminiFile, claudeHist, geminiHist,
          pc, policyMem, claudeMem, geminiMem, log, rv>>

---------------------------------------------------------------------------
(* Bounds *)

MaxAllow == 2     \* longest pre-existing permissions.allow list
MaxPolicy == 2    \* longest permissionsAllow sequence of the policy
MaxRuns == 2      \* calls of each merge routine in one behaviour
MaxLines == 2     \* lines of the external tool's standard output

Tokens == {"Bash", "Read"}
ServerNames == {"a", "b"}

\* The value of a variable that belongs to the other utility, or to the
\* other view of this one.
Unused == "unused"

Range(s) == {s[i] : i \in 1..Len(s)}

SeqsUpTo(S, n) == UNION {[1..k -> S] : k \in 0..n}

---------------------------------------------------------------------------
(* JSON documents of the Policy Merger *)

\* Claude settings.  top: "map" or "list" (a top-level value that is no
\* mapping); other: the value of an unrelated top-level key; perms: the
\* "permissions" key ("absent", a "scalar", or a "map"); deny: an unrelated
\* key inside permissions; allow: permissions.allow ("absent", "null", or a
\* "list" whose entries are items).
ClaudeDoc(top, other, perms, deny, allow, items) ==
    [top |-> top, other |-> other, perms |-> perms, deny |-> deny,
     allow |-> allow, items |-> items]

EmptyClaude == ClaudeDoc("map", "none", "absent", "none", "absent", <<>>)

ClaudeDocs ==
    {ClaudeDoc("list", "none", "absent", "none", "absent", <<>>)}
    \cup {ClaudeDoc("map", o, p, "none", "absent", <<>>) :
            o \in {"none", "x"}, p \in {"absent", "scalar"}}
    \cup {ClaudeDoc("map", o, "map", d, a, <<>>) :
            o \in {"none", "x"}, d \in {"none", "d"}, a \in {"absent", "null"}}
    \cup {ClaudeDoc("map", o, "map", d, "list", s) :
            o \in {"none", "x"}, d \in {"none", "d"}, s \in SeqsUpTo(Tokens, MaxAllow)}

\* Gemini settings.  servers: the "mcpServers" key ("absent", "null" for a
\* value that is no mapping, or "map"); entries: each server name's value:
\* kind "absent" (no such key), "scalar" (not a mapping) or "map" with its
\* url and its trust field ("none" when the key is missing).
Entry(kind, url, trust) == [kind |-> kind, url |-> url, trust |-> trust]

NoEntry == Entry("absent", "none", "none")

Entries ==
    {NoEntry, Entry("scalar", "none", "none")}
    \cup {Entry("map", "x", t) : t \in {"none", "false", "true"}}

GeminiDoc(top, other, servers, entries) ==
    [top |-> top, other |-> other, servers |-> servers, entries |-> entries]

NoEntries == [n \in ServerNames |-> NoEntry]

EmptyGemini == GeminiDoc("map", "none", "absent", NoEntries)

GeminiDocs ==
    {GeminiDoc("list", "none", "absent", NoEntries)}
    \cup {GeminiDoc("map", o, s, NoEntries) :
            o \in {"none", "x"}, s \in {"absent", "null"}}
    \cup {GeminiDoc("map", o, "map", e) :
            o \in {"none", "x"}, e \in [ServerNames -> Entries]}

\* The policy document: claude.permissionsAllow (hasAllow: whether the key
\* is there) and gemini.forceMcpTrust ("absent", "false", "true", or "one"
\* for a value that is truthy without being the boolean true).
PolicyDoc(hasAllow, permissionsAllow, forceMcpTrust) ==
    [claude |-> [hasAllow |-> hasAllow, permissionsAllow |-> permissionsAllow],
     gemini |-> [forceMcpTrust |-> forceMcpTrust]]

EmptyPolicy == PolicyDoc(FALSE, <<>>, "absent")

PolicyDocs ==
    {PolicyDoc(FALSE, <<>>, f) : f \in {"absent", "false", "true", "one"}}
    \cup {PolicyDoc(TRUE, s, f) :
            s \in SeqsUpTo(Tokens, MaxPolicy),
            f \in {"absent", "false", "true", "one"}}

---------------------------------------------------------------------------
(* Files *)

File(state, layout, doc) == [state |-> state, layout |-> layout, doc |-> doc]

FilesOf(docs, blank) ==
    {File("absent", "none", blank), File("malformed", "none", blank)}
    \cup {File("text", l, d) : l \in {"compact", "pretty"}, d \in docs}

\* read_json: a missing file yields the default, a complete text its value,
\* anything else a JSONDecodeError.
read_json(file, default) ==
    IF file.state = "absent" THEN [ok |-> TRUE, val |-> default]
    ELSE IF file.state = "text" THEN [ok |-> TRUE, val |-> file.doc]
    ELSE [ok |-> FALSE, val |-> default]

\* write_json, first half: open(path, "w") truncates the file in place.
write_open(blank) == File("empty", "none", blank)

\* write_json, a dump cut short: a prefix of the text is on disk.
write_partial(data) == File("partial", "pretty", data)

\* A variant whose text never reaches the file whole.
write_json_unflushed(data) == File("partial", "pretty", data)

\* write_json, completed: json.dump(data, f, indent=2) and the newline.
write_json(data) == File("text", "pretty", data)

---------------------------------------------------------------------------
(* ensure_claude_permissions *)

Raise(val) == [ok |-> FALSE, val |-> val]

Return(val) == [ok |-> TRUE, val |-> val]

\* policy.get("permissionsAllow", [])
permissionsAllow(policy) ==
    IF policy.hasAllow THEN policy.permissionsAllow ELSE <<>>

\* A variant that assigns a fresh mapping instead of using setdefault.
setdefault_permissions_overwrites(settings) ==
    [settings EXCEPT !.perms = "map", !.deny = "none", !.allow = "absent", !.items = <<>>]

\* settings.setdefault("permissions", {})
setdefault_permissions(settings) ==
    IF settings.perms = "absent" THEN [settings EXCEPT !.perms = "map"] ELSE settings

\* permissions.setdefault("allow", [])
setdefault_allow(settings) ==
    IF settings.allow = "absent"
    THEN [settings EXCEPT !.allow = "list", !.items = <<>>]
    ELSE settings

\* A variant of the loop body without the membership test.
merge_item_always(acc, item) ==
    [allow |-> Append(acc.allow, item), allow_set |-> acc.allow_set \cup {item}]

\* A variant of the loop body that forgets allow_set.add(item).
merge_item_no_add(acc, item) ==
    IF item \notin acc.allow_set
    THEN [allow |-> Append(acc.allow, item), allow_set |-> acc.allow_set]
    ELSE acc

\* One turn of the loop: acc is the list allow and the set allow_set.
merge_item(acc, item) ==
    IF item \notin acc.allow_set
    THEN [allow |-> Append(acc.allow, item), allow_set |-> acc.allow_set \cup {item}]
    ELSE acc

RECURSIVE merge_items(_, _)
merge_items(acc, todo) ==
    IF todo = <<>> THEN acc
    ELSE merge_items(merge_item(acc, Head(todo)), Tail(todo))

\* The in-memory part of ensure_claude_permissions.  A top-level value or a
\* "permissions" value without setdefault raises AttributeError, set(None)
\* raises TypeError.
claude_merge(settings, policy) ==
    IF settings.top # "map" THEN Raise(settings)
    ELSE LET s1 == setdefault_permissions(settings) IN
         IF s1.perms # "map" THEN Raise(settings)
         ELSE LET s2 == setdefault_allow(s1) IN
              IF s2.allow # "list" THEN Raise(settings)
              ELSE LET acc == merge_items([allow |-> s2.items, allow_set |-> Range(s2.items)],
                                          permissionsAllow(policy))
                   IN Return([s2 EXCEPT !.items = acc.allow])

\* A whole call: what it loaded, whether it raised, the file it leaves.
claude_call(file, policy) ==
    LET r == read_json(file, EmptyClaude) IN
    IF ~r.ok THEN [raised |-> TRUE, loaded |-> EmptyClaude, file |-> file]
    ELSE LET m == claude_merge(r.val, policy) IN
         IF ~m.ok THEN [raised |-> TRUE, loaded |-> r.val, file |-> file]
         ELSE [raised |-> FALSE, loaded |-> r.val, file |-> write_json(m.val)]

---------------------------------------------------------------------------
(* ensure_gemini_mcp_trust *)

\* Python truthiness of policy.get("forceMcpTrust")
Truthy(v) == v \in {"true", "one"}

\* A variant that only fills in a trust field that is missing.
trust_entry_if_missing(server_cfg) ==
    IF server_cfg.kind = "map" /\ server_cfg.trust = "none"
    THEN [server_cfg EXCEPT !.trust = "true"]
    ELSE server_cfg

\* if isinstance(server_cfg, dict): server_cfg["trust"] = True
trust_entry(server_cfg) ==
    IF server_cfg.kind = "map" THEN [server_cfg EXCEPT !.trust = "true"] ELSE server_cfg

\* for _, server_cfg in servers.items()
force_trust(entries) == [n \in DOMAIN entries |-> trust_entry(entries[n])]

\* The in-memory part of ensure_gemini_mcp_trust.  settings.get on a value
\* that is no mapping and .items() on an mcpServers value that is no
\* mapping raise AttributeError.
gemini_merge(settings, policy) ==
    IF Truthy(policy.forceMcpTrust)
    THEN IF settings.top # "map" THEN Raise(settings)
         ELSE IF settings.servers = "null" THEN Raise(settings)
         ELSE Return([settings EXCEPT !.entries = force_trust(@)])
    ELSE Return(settings)

gemini_call(file, policy) ==
    LET r == read_json(file, EmptyGemini) IN
    IF ~r.ok THEN [raised |-> TRUE, loaded |-> EmptyGemini, file |-> file]
    ELSE LET m == gemini_merge(r.val, policy) IN
         IF ~m.ok THEN [raised |-> TRUE, loaded |-> r.val, file |-> file]
         ELSE [raised |-> FALSE, loaded |-> r.val, file |-> write_json(m.val)]

---------------------------------------------------------------------------
(* The Review Invoker: the external process and its output *)

\* One line of standard output.  json: "blank" (an empty line), "junk" (not
\* JSON), "scalar" (JSON, but no object) or "object"; for an object, type is
\* its "type", item its "item" key ("absent", a "scalar", or an "object"
\* with itemType and text; text "none": no "text" key).
Line(json, type, item, itemType, text) ==
    [json |-> json, type |-> type, item |-> item, itemType |-> itemType, text |-> text]

Lines ==
    {Line(j, "none", "absent", "none", "none") : j \in {"blank", "junk", "scalar"}}
    \cup {Line("object", t, "absent", "none", "none") : t \in {"turn.started", "item.completed"}}
    \cup {Line("object", "item.completed", "scalar", "none", "none"),
          Line("object", "item.completed", "object", "reasoning", "NO")}
    \cup {Line("object", "item.completed", "object", "agent_message", x) :
            x \in {"none", "OK", "NO"}}

Proc(outcome, returncode, stdout, stderr) ==
    [outcome |-> outcome, returncode |-> returncode, stdout |-> stdout, stderr |-> stderr]

NoProc == Proc("none", 0, <<>>, "")

\* What subprocess.run can do: return a completed process, or raise
\* TimeoutExpired, FileNotFoundError (no codex executable) or another
\* OSError (PermissionError: codex is not executable).
Procs ==
    {Proc(o, 0, <<>>, "") : o \in {"TimeoutExpired", "FileNotFoundError", "PermissionError"}}
    \cup {Proc("completed", rc, out, err) :
            rc \in {0, 1}, out \in SeqsUpTo(Lines, MaxLines), err \in {"", "codex: failed"}}

\* output_file: "none" (not given), "writable", "nodir" (open raises
\* FileNotFoundError), "denied" (open raises PermissionError), "full" (open
\* succeeds, f.write raises OSError).
OutputFiles == {"none", "writable", "nodir", "denied", "full"}

Unwritten == [state |-> "unwritten", text |-> <<>>]

TimeoutMsg == "Codex review timed out after 5 minutes"

NotFoundMsg == "Codex CLI not found. Please install it first."

\* f"Unexpected error: {str(e)}"
UnexpectedMsg(exc) ==
    CASE exc = "PermissionError" -> "Unexpected error: [Errno 13] Permission denied"
      [] exc = "OSError" -> "Unexpected error: [Errno 28] No space left on device"
      [] exc = "AttributeError" -> "Unexpected error: 'int' object has no attribute 'get'"
      [] OTHER -> "Unexpected error: "

NoText == [none |-> TRUE, text |-> <<>>]

Text(t) == [none |-> FALSE, text |-> t]

Result(success, output, error, has_events, events, summary) ==
    [success |-> success, output |-> output, error |-> error,
     has_events |-> has_events, events |-> events, summary |-> summary]

\* The result of the three except clauses: error "none" is None.
Failure(message) == Result(FALSE, NoText, message, FALSE, <<>>, "none")

\* A variant without the final "except Exception" clause.
except_clauses_no_generic(exc) ==
    IF exc = "TimeoutExpired" THEN [propagated |-> FALSE, result |-> Failure(TimeoutMsg)]
    ELSE IF exc = "FileNotFoundError" THEN [propagated |-> FALSE, result |-> Failure(NotFoundMsg)]
    ELSE [propagated |-> TRUE, result |-> Failure("none")]

\* except subprocess.TimeoutExpired / FileNotFoundError / Exception
except_clauses(exc) ==
    IF exc = "TimeoutExpired" THEN [propagated |-> FALSE, result |-> Failure(TimeoutMsg)]
    ELSE IF exc = "FileNotFoundError" THEN [propagated |-> FALSE, result |-> Failure(NotFoundMsg)]
    ELSE [propagated |-> FALSE, result |-> Failure(UnexpectedMsg(exc))]

\* json.loads of one line: the record it denotes, or JSONDecodeError.
Event(line) ==
    [isdict |-> line.json = "object", type |-> line.type, item |-> line.item,
     itemType |-> line.itemType, text |-> line.text]

json_loads(line) ==
    IF line.json \in {"scalar", "object"} THEN Return(Event(line)) ELSE Raise(Event(line))

\* _parse_jsonl: jsonl_text.strip().split('\n'); empty lines and lines
\* json.loads rejects are skipped (strip only removes blank space around
\* the text, which json.loads ignores anyway).
RECURSIVE parse_jsonl(_)
parse_jsonl(jsonl_text) ==
    IF jsonl_text = <<>> THEN <<>>
    ELSE LET line == Head(jsonl_text)
             rest == parse_jsonl(Tail(jsonl_text))
         IN IF line.json # "blank" /\ json_loads(line).ok
            THEN <<json_loads(line).val>> \o rest
            ELSE rest

\* _extract_summary: the scan over reversed(events).  event.get on a value
\* that is no mapping, and item.get on an item that is none, raise
\* AttributeError (the message names the value's type); a missing item is
\* {} and a missing text is None.
RECURSIVE extract_summary(_)
extract_summary(events) ==
    IF events = <<>> THEN Return("none")
    ELSE LET event == events[Len(events)]
             front == SubSeq(events, 1, Len(events) - 1)
         IN IF ~event.isdict THEN Raise("AttributeError")
            ELSE IF event.type = "item.completed"
                 THEN IF event.item = "scalar" THEN Raise("AttributeError")
                      ELSE IF event.item = "object" /\ event.itemType = "agent_message"
                           THEN Return(event.text)
                           ELSE extract_summary(front)
                 ELSE extract_summary(front)

\* A variant that writes the file only after a zero exit code.
write_output_on_success(output_file, proc) ==
    IF output_file = "none" \/ proc.returncode # 0 THEN [exc |-> "none", file |-> Unwritten]
    ELSE IF output_file = "nodir" THEN [exc |-> "FileNotFoundError", file |-> Unwritten]
    ELSE IF output_file = "denied" THEN [exc |-> "PermissionError", file |-> Unwritten]
    ELSE IF output_file = "full" THEN [exc |-> "OSError", file |-> [state |-> "truncated", text |-> <<>>]]
    ELSE [exc |-> "none", file |-> [state |-> "written", text |-> proc.stdout]]

\* if output_file: with open(output_file, 'w') as f: f.write(output)
write_output(output_file, proc) ==
    IF output_file = "none" THEN [exc |-> "none", file |-> Unwritten]
    ELSE IF output_file = "nodir" THEN [exc |-> "FileNotFoundError", file |-> Unwritten]
    ELSE IF output_file = "denied" THEN [exc |-> "PermissionError", file |-> Unwritten]
    ELSE IF output_file = "full" THEN [exc |-> "OSError", file |-> [state |-> "truncated", text |-> <<>>]]
    ELSE [exc |-> "none", file |-> [state |-> "written", text |-> proc.stdout]]

\* The response built after the process completed and the file was written.
response(json_output, proc) ==
    LET success == proc.returncode = 0
        error == IF proc.returncode # 0 THEN proc.stderr ELSE "none"
        events == parse_jsonl(proc.stdout)
        summary == extract_summary(events)
    IN IF ~json_output
       THEN [exc |-> "none", result |-> Result(success, Text(proc.stdout), error, FALSE, <<>>, "none")]
       ELSE IF ~summary.ok
            THEN [exc |-> summary.val, result |-> Failure("none")]
            ELSE [exc |-> "none",
                  result |-> Result(success, Text(proc.stdout), error, TRUE, events, summary.val)]

\* run_review: one subprocess.run inside one try.  exc is the exception
\* raised inside the try ("none" when there was none), propagated whether a
\* fault left the call, outFile what the call did to output_file.
run_review(json_output, output_file, proc) ==
    IF proc.outcome # "completed"
    THEN [exc |-> proc.outcome, invocations |-> 1, outFile |-> Unwritten]
            @@ except_clauses(proc.outcome)
    ELSE LET w == write_output(output_file, proc) IN
         IF w.exc # "none"
         THEN [exc |-> w.exc, invocations |-> 1, outFile |-> w.file] @@ except_clauses(w.exc)
         ELSE LET r == response(json_output, proc) IN
              IF r.exc # "none"
              THEN [exc |-> r.exc, invocations |-> 1, outFile |-> w.file] @@ except_clauses(r.exc)
              ELSE [exc |-> "none", invocations |-> 1, outFile |-> w.file,
                    propagated |-> FALSE, result |-> r.result]

NotCalled ==
    [exc |-> "none", invocations |-> 0, outFile |-> Unwritten,
     propagated |-> FALSE, result |-> Failure("none")]

---------------------------------------------------------------------------
(* The Review Invoker: main *)

ReviewTypes == {"security", "performance", "architecture", "quality", "diff"}

\* The reasoning effort each canned review passes to run_review.
reasoning_effort(review_type) ==
    IF review_type \in {"security", "architecture", "diff"} THEN "high" ELSE "medium"

\* A variant that reports success whenever a review ran.
exit_code_ignores_failure(call) == 0

\* if result["success"]: ... return 0  else: ... return 1
exit_code(call) == IF call.result.success THEN 0 ELSE 1

\* main: argc is len(sys.argv).  CodexReviewer() has json_output = True and
\* the canned reviews pass no output_file.
main(argc, review_type, proc) ==
    IF argc < 3 THEN [exit |-> 1, effort |-> "none"] @@ NotCalled
    ELSE IF review_type \in ReviewTypes
         THEN LET call == run_review(TRUE, "none", proc)
              IN [exit |-> exit_code(call), effort |-> reasoning_effort(review_type)] @@ call
         ELSE [exit |-> 1, effort |-> "none"] @@ NotCalled

RvInit ==
    [op |-> "none", argc |-> 0, review_type |-> "none", json_output |-> FALSE,
     output_file |-> "none", proc |-> NoProc, exit |-> -1, effort |-> "none"] @@ NotCalled

\* A direct call of run_review on a reviewer built with json_output.
call_run_review ==
    /\ rv.op = "none"
    /\ \E json_output \in BOOLEAN, output_file \in OutputFiles, proc \in Procs :
          rv' = [op |-> "run_review", argc |-> 0, review_type |-> "none",
                 json_output |-> json_output, output_file |-> output_file, proc |-> proc,
                 exit |-> -1, effort |-> "medium"]
                @@ run_review(json_output, output_file, proc)
    /\ UNCHANGED <<mergerInputs, mergeVars, mainVars>>

\* A run of the command line that reaches a review.
call_main_review ==
    /\ rv.op = "none"
    /\ \E argc \in {3, 4}, review_type \in ReviewTypes, proc \in Procs :
          rv' = [op |-> "main", argc |-> argc, review_type |-> review_type,
                 json_output |-> TRUE, output_file |-> "none", proc |-> proc]
                @@ main(argc, review_type, proc)
    /\ UNCHANGED <<mergerInputs, mergeVars, mainVars>>

\* A run of the command line that ends before any review: too few
\* arguments, or an unknown review type.
call_main_usage ==
    /\ rv.op = "none"
    /\ \E argc \in 1..4, review_type \in ReviewTypes \cup {"bogus"} :
          /\ argc < 3 \/ review_type \notin ReviewTypes
          /\ rv' = [op |-> "main", argc |-> argc, review_type |-> review_type,
                    json_output |-> TRUE, output_file |-> "none", proc |-> NoProc]
                   @@ main(argc, review_type, NoProc)
    /\ UNCHANGED <<mergerInputs, mergeVars, mainVars>>

InitReview ==
    /\ policyFile = Unused /\ claudeFile = Unused /\ geminiFile = Unused
    /\ claudeHist = Unused /\ geminiHist = Unused
    /\ pc = Unused /\ policyMem = Unused /\ claudeMem = Unused
    /\ geminiMem = Unused /\ log = Unused
    /\ rv = RvInit

NextReview == call_run_review \/ call_main_review \/ call_main_usage

SpecReview == InitReview /\ [][NextReview]_vars

---------------------------------------------------------------------------
(* Initial states of the Policy Merger *)

PolicyFiles == FilesOf(PolicyDocs, EmptyPolicy)

ClaudeFiles == FilesOf(ClaudeDocs, EmptyClaude)

GeminiFiles == FilesOf(GeminiDocs, EmptyGemini)

\* A few representative contents of each side, used while the other side
\* ranges over everything.
ClaudeSample ==
    {File("absent", "none", EmptyClaude), File("malformed", "none", EmptyClaude),
     File("text", "compact", ClaudeDoc("map", "x", "map", "d", "list", <<"Bash">>))}

GeminiSample ==
    {File("absent", "none", EmptyGemini), File("malformed", "none", EmptyGemini),
     File("text", "compact",
          GeminiDoc("map", "x", "map",
                    [n \in ServerNames |->
                        IF n = "a" THEN Entry("map", "x", "none")
                        ELSE Entry("scalar", "none", "none")]))}

ClaudePolicySample(p) ==
    p.doc.claude \in {EmptyPolicy.claude,
                      [hasAllow |-> TRUE, permissionsAllow |-> <<"Bash", "Read">>]}

GeminiPolicySample(p) == p.doc.gemini.forceMcpTrust \in {"absent", "true"}

Hist0(file, blank) ==
    [runs |-> 0, raised |-> FALSE, pre |-> file, loaded |-> blank, orig |-> file]

InitInputs ==
    /\ policyFile \in PolicyFiles
    /\ \/ /\ GeminiPolicySample(policyFile)
          /\ claudeFile \in ClaudeFiles
          /\ geminiFile \in GeminiSample
       \/ /\ ClaudePolicySample(policyFile)
          /\ claudeFile \in ClaudeSample
          /\ geminiFile \in GeminiFiles

InitHist ==
    /\ claudeHist = Hist0(claudeFile, EmptyClaude)
    /\ geminiHist = Hist0(geminiFile, EmptyGemini)

---------------------------------------------------------------------------
(* The merge routines as whole calls, with the policy main would pass *)

LoadedPolicy == read_json(policyFile, EmptyPolicy)

ensure_claude_permissions ==
    /\ LoadedPolicy.ok
    /\ claudeHist.runs < MaxRuns
    /\ LET res == claude_call(claudeFile, LoadedPolicy.val.claude) IN
         /\ claudeFile' = res.file
         /\ claudeHist' = [claudeHist EXCEPT !.runs = @ + 1, !.raised = res.raised,
                                             !.pre = claudeFile, !.loaded = res.loaded]
    /\ UNCHANGED <<policyFile, geminiFile, geminiHist, mainVars, rv>>

ensure_gemini_mcp_trust ==
    /\ LoadedPolicy.ok
    /\ geminiHist.runs < MaxRuns
    /\ LET res == gemini_call(geminiFile, LoadedPolicy.val.gemini) IN
         /\ geminiFile' = res.file
         /\ geminiHist' = [geminiHist EXCEPT !.runs = @ + 1, !.raised = res.raised,
                                             !.pre = geminiFile, !.loaded = res.loaded]
    /\ UNCHANGED <<policyFile, claudeFile, claudeHist, mainVars, rv>>

InitMerge ==
    /\ InitInputs
    /\ InitHist
    /\ pc = Unused /\ policyMem = Unused /\ claudeMem = Unused
    /\ geminiMem = Unused /\ log = Unused
    /\ rv = Unused

NextMerge == ensure_claude_permissions \/ ensure_gemini_mcp_trust

SpecMerge == InitMerge /\ [][NextMerge]_vars

---------------------------------------------------------------------------
(* One run of main of apply-policy.py, a step at a time.  pc names the step
   to take next; a run that raised stays at "failed_...". *)

\* policy = read_json(policy_path, {})
main_read_policy ==
    /\ pc = "start"
    /\ LET r == read_json(policyFile, EmptyPolicy) IN
         /\ policyMem' = r.val
         /\ pc' = IF r.ok THEN "claude_read" ELSE "failed_policy_json"
    /\ log' = Append(log, "read_policy")
    /\ UNCHANGED <<mergerInputs, mergeVars, claudeMem, geminiMem, rv>>

\* A variant that swallows the parse error and carries on with the default.
claude_read_lenient ==
    /\ pc = "claude_read"
    /\ claudeMem' = read_json(claudeFile, EmptyClaude).val
    /\ pc' = "claude_merge"
    /\ log' = Append(log, "read_claude")
    /\ UNCHANGED <<mergerInputs, mergeVars, policyMem, geminiMem, rv>>

\* ensure_claude_permissions: settings = read_json(settings_path, {})
claude_read ==
    /\ pc = "claude_read"
    /\ LET r == read_json(claudeFile, EmptyClaude) IN
         /\ claudeMem' = r.val
         /\ pc' = IF r.ok THEN "claude_merge" ELSE "failed_claude_json"
    /\ log' = Append(log, "read_claude")
    /\ UNCHANGED <<mergerInputs, mergeVars, policyMem, geminiMem, rv>>

\* ensure_claude_permissions: the setdefault calls and the loop
claude_update ==
    /\ pc = "claude_merge"
    /\ LET m == claude_merge(claudeMem, policyMem.claude) IN
         /\ claudeMem' = m.val
         /\ pc' = IF m.ok THEN "claude_open" ELSE "failed_claude_merge"
    /\ UNCHANGED <<mergerInputs, mergeVars, policyMem, geminiMem, log, rv>>

\* write_json(settings_path, settings): path.open("w")
claude_open ==
    /\ pc = "claude_open"
    /\ claudeFile' = write_open(EmptyClaude)
    /\ log' = Append(log, "write_claude")
    /\ pc' = "claude_dump"
    /\ UNCHANGED <<policyFile, geminiFile, mergeVars, policyMem, claudeMem, geminiMem, rv>>

\* write_json: json.dump and the newline reach the file
claude_dump ==
    /\ pc = "claude_dump"
    /\ claudeFile' = write_json(claudeMem)
    /\ pc' = "gemini_read"
    /\ UNCHANGED <<policyFile, geminiFile, mergeVars, policyMem, claudeMem, geminiMem, log, rv>>

\* write_json: the dump is cut short (an OSError such as a full disk, or the
\* process is interrupted); nothing or a prefix of the text is on disk
claude_dump_fails ==
    /\ pc = "claude_dump"
    /\ claudeFile' \in {claudeFile, write_partial(claudeMem)}
    /\ pc' = "failed_claude_write"
    /\ UNCHANGED <<policyFile, geminiFile, mergeVars, policyMem, claudeMem, geminiMem, log, rv>>

\* ensure_gemini_mcp_trust: settings = read_json(settings_path, {})
gemini_read ==
    /\ pc = "gemini_read"
    /\ LET r == read_json(geminiFile, EmptyGemini) IN
         /\ geminiMem' = r.val
         /\ pc' = IF r.ok THEN "gemini_merge" ELSE "failed_gemini_json"
    /\ log' = Append(log, "read_gemini")
    /\ UNCHANGED <<mergerInputs, mergeVars, policyMem, claudeMem, rv>>

\* ensure_gemini_mcp_trust: the forceMcpTrust branch
gemini_update ==
    /\ pc = "gemini_merge"
    /\ LET m == gemini_merge(geminiMem, policyMem.gemini) IN
         /\ geminiMem' = m.val
         /\ pc' = IF m.ok THEN "gemini_open" ELSE "failed_gemini_merge"
    /\ UNCHANGED <<mergerInputs, mergeVars, policyMem, claudeMem, log, rv>>

gemini_open ==
    /\ pc = "gemini_open"
    /\ geminiFile' = write_open(EmptyGemini)
    /\ log' = Append(log, "write_gemini")
    /\ pc' = "gemini_dump"
    /\ UNCHANGED <<policyFile, claudeFile, mergeVars, policyMem, claudeMem, geminiMem, rv>>

gemini_dump ==
    /\ pc = "gemini_dump"
    /\ geminiFile' = write_json(geminiMem)
    /\ pc' = "done"
    /\ UNCHANGED <<policyFile, claudeFile, mergeVars, policyMem, claudeMem, geminiMem, log, rv>>

gemini_dump_fails ==
    /\ pc = "gemini_dump"
    /\ geminiFile' \in {geminiFile, write_partial(geminiMem)}
    /\ pc' = "failed_gemini_write"
    /\ UNCHANGED <<policyFile, claudeFile, mergeVars, policyMem, claudeMem, geminiMem, log, rv>>

InitMain ==
    /\ InitInputs
    /\ InitHist
    /\ pc = "start"
    /\ policyMem = EmptyPolicy
    /\ claudeMem = EmptyClaude
    /\ geminiMem = EmptyGemini
    /\ log = <<>>
    /\ rv = Unused

NextMain ==
    \/ main_read_policy
    \/ claude_read \/ claude_update \/ claude_open \/ claude_dump \/ claude_dump_fails
    \/ gemini_read \/ gemini_update \/ gemini_open \/ gemini_dump \/ gemini_dump_fails

SpecMain == InitMain /\ [][NextMain]_vars

---------------------------------------------------------------------------
(* Claims about the Policy Merger *)

IsPrefix(s, t) == Len(s) <= Len(t) /\ SubSeq(t, 1, Len(s)) = s

NoDup(s) == \A i, j \in 1..Len(s) : i # j => s[i] # s[j]

Count(s, x) == Cardinality({i \in 1..Len(s) : s[i] = x})

FirstIndex(s, x) == CHOOSE i \in 1..Len(s) : s[i] = x /\ \A j \in 1..(i - 1) : s[j] # x

\* The policy values the calls were given.
PolicyTokens ==
    IF policyFile.state = "text" /\ policyFile.doc.claude.hasAllow
    THEN policyFile.doc.claude.permissionsAllow
    ELSE <<>>

PolicyForce ==
    IF policyFile.state = "text" THEN policyFile.doc.gemini.forceMcpTrust ELSE "absent"

ClaudeReturned == claudeHist.runs >= 1 /\ ~claudeHist.raised

GeminiReturned == geminiHist.runs >= 1 /\ ~geminiHist.raised

\* The allow-list the last call found (an absent file or key is the empty list).
PreAllow == IF claudeHist.loaded.allow = "list" THEN claudeHist.loaded.items ELSE <<>>

Written == claudeFile.doc.items

Appended == SubSeq(Written, Len(PreAllow) + 1, Len(Written))

\* C1: running ensure_claude_permissions (resp. ensure_gemini_mcp_trust) a
\* second time with the same policy leaves the settings file identical, layout
\* included, to the file the first run left.
C1_Idempotent ==
    /\ claudeHist.runs >= 2 => claudeFile = claudeHist.pre
    /\ geminiHist.runs >= 2 => geminiFile = geminiHist.pre

C1_Witness ==
    /\ claudeHist.runs = 2 /\ ~claudeHist.raised
    /\ claudeHist.orig.layout = "compact"
    /\ Len(Written) > Len(claudeHist.orig.doc.items)
    /\ geminiHist.runs = 2 /\ ~geminiHist.raised
    /\ geminiHist.orig.state = "text" /\ geminiFile.doc # geminiHist.orig.doc

\* The written allow-list is the pre-existing entries in their order, then
\* the policy tokens that were not present, once each, in policy order.
C2_Order ==
    /\ claudeFile.state = "text" /\ claudeFile.doc.allow = "list"
    /\ IsPrefix(PreAllow, Written)
    /\ Range(Appended) = Range(PolicyTokens) \ Range(PreAllow)
    /\ \A i, j \in 1..Len(Appended) :
          i < j => FirstIndex(PolicyTokens, Appended[i]) < FirstIndex(PolicyTokens, Appended[j])

\* C2 as stated: after ensure_claude_permissions the written allow-list is
\* the pre-existing entries followed by the new policy tokens in policy
\* order, and no permission string appears twice in it.
C2_Original == ClaudeReturned => C2_Order /\ NoDup(Written)

\* C2 as amended: the same order, and a permission string appears twice in
\* the written allow-list only if it appeared as often in the pre-existing one.
C2_Amended ==
    ClaudeReturned =>
        /\ C2_Order
        /\ \A t \in Tokens : Count(Written, t) >= 2 => Count(PreAllow, t) = Count(Written, t)

C2_Witness ==
    /\ ClaudeReturned
    /\ ~NoDup(PreAllow)
    /\ Len(Appended) >= 1

\* C3: ensure_claude_permissions changes nothing of the loaded settings but
\* permissions.allow and removes no allow entry; ensure_gemini_mcp_trust
\* changes at most the trust field of mapping-valued mcpServers entries, and
\* nothing at all when forceMcpTrust is false or absent.
C3_NonDestructive ==
    /\ ClaudeReturned =>
          /\ claudeFile.state = "text"
          /\ claudeFile.doc.top = claudeHist.loaded.top
          /\ claudeFile.doc.other = claudeHist.loaded.other
          /\ claudeFile.doc.deny = claudeHist.loaded.deny
          /\ claudeHist.loaded.perms # "absent" => claudeFile.doc.perms = claudeHist.loaded.perms
          /\ IsPrefix(PreAllow, Written)
    /\ GeminiReturned =>
          /\ geminiFile.state = "text"
          /\ geminiFile.doc.top = geminiHist.loaded.top
          /\ geminiFile.doc.other = geminiHist.loaded.other
          /\ geminiFile.doc.servers = geminiHist.loaded.servers
          /\ \A n \in ServerNames :
                /\ geminiFile.doc.entries[n].kind = geminiHist.loaded.entries[n].kind
                /\ geminiFile.doc.entries[n].url = geminiHist.loaded.entries[n].url
                /\ geminiHist.loaded.entries[n].kind # "map"
                      => geminiFile.doc.entries[n] = geminiHist.loaded.entries[n]
          /\ PolicyForce \in {"false", "absent"} => geminiFile.doc = geminiHist.loaded

C3_Witness ==
    /\ ClaudeReturned
    /\ claudeHist.loaded.other = "x" /\ claudeHist.loaded.deny = "d"
    /\ Len(PreAllow) >= 1 /\ Len(Appended) >= 1
    /\ GeminiReturned
    /\ geminiHist.loaded.other = "x"
    /\ geminiFile.doc # geminiHist.loaded
    /\ \E n \in ServerNames : geminiHist.loaded.entries[n].kind = "scalar"

C4_Propagated ==
    /\ ~geminiHist.raised
    /\ geminiFile.state = "text"
    /\ \A n \in ServerNames :
          /\ geminiHist.loaded.entries[n].kind = "map"
                => geminiFile.doc.entries[n].trust = "true"
          /\ geminiHist.loaded.entries[n].kind # "map"
                => geminiFile.doc.entries[n] = geminiHist.loaded.entries[n]

\* C4 as stated: with forceMcpTrust true, for every existing Gemini settings
\* document the call completes without an error, every mapping-valued
\* mcpServers entry is written with trust = true and every other entry is
\* written back unchanged.
C4_Original ==
    (geminiHist.runs >= 1 /\ PolicyForce = "true" /\ geminiHist.pre.state = "text")
        => C4_Propagated

\* C4 as amended: the same, for every existing Gemini settings document that
\* is a mapping whose mcpServers value, when present, is a mapping.
C4_Amended ==
    (/\ geminiHist.runs >= 1 /\ PolicyForce = "true" /\ geminiHist.pre.state = "text"
     /\ geminiHist.pre.doc.top = "map" /\ geminiHist.pre.doc.servers # "null")
        => C4_Propagated

C4_Witness ==
    /\ geminiHist.runs >= 1 /\ PolicyForce = "true" /\ geminiHist.pre.state = "text"
    /\ geminiHist.pre.doc.servers = "map"
    /\ geminiHist.pre.doc.entries["a"] = Entry("map", "x", "false")
    /\ geminiHist.pre.doc.entries["b"] = Entry("scalar", "none", "none")
    /\ geminiFile.doc.entries["a"].trust = "true"

Writes == {i \in 1..Len(log) : log[i] \in {"write_claude", "write_gemini"}}

Before(i, what) == \E j \in 1..(i - 1) : log[j] = what

\* C5 as stated: in a run of main both target files are read before either
\* is written, so a run that fails on malformed JSON in either target file
\* has written neither.
C5_Original ==
    /\ \A i \in Writes : Before(i, "read_claude") /\ Before(i, "read_gemini")
    /\ pc \in {"failed_claude_json", "failed_gemini_json"} => Writes = {}

\* C5 as amended: each target file is read before that file is written, and
\* the Claude file is written before the Gemini file is read; a run on
\* malformed Claude JSON writes neither file, a run that fails on malformed
\* Gemini JSON has already rewritten the Claude file and leaves the Gemini
\* file alone.
C5_Amended ==
    /\ \A i \in 1..Len(log) :
          /\ log[i] = "write_claude" => Before(i, "read_claude")
          /\ log[i] = "write_gemini" => Before(i, "read_gemini")
          /\ log[i] = "read_gemini" => Before(i, "write_claude")
    /\ claudeHist.orig.state = "malformed" =>
          Writes = {} /\ claudeFile = claudeHist.orig /\ geminiFile = geminiHist.orig
    /\ geminiHist.orig.state = "malformed" =>
          geminiFile = geminiHist.orig /\ \A i \in Writes : log[i] = "write_claude"
    /\ pc = "failed_gemini_json" =>
          /\ \E i \in Writes : log[i] = "write_claude"
          /\ claudeFile.state = "text" /\ claudeFile.layout = "pretty"

C5_Witness ==
    /\ pc = "failed_gemini_json"
    /\ claudeHist.orig.state = "text"
    /\ claudeFile # claudeHist.orig

Complete(file, mem) == file.state = "text" /\ file.layout = "pretty" /\ file.doc = mem

\* C6 as stated: at every point of a run, also one interrupted or failing
\* inside write_json, each target file holds its complete previous content
\* or its complete merged content.
C6_Original ==
    /\ claudeFile = claudeHist.orig \/ Complete(claudeFile, claudeMem)
    /\ geminiFile = geminiHist.orig \/ Complete(geminiFile, geminiMem)

BeforeClaudeWrite ==
    pc \in {"start", "claude_read", "claude_merge", "claude_open",
            "failed_policy_json", "failed_claude_json", "failed_claude_merge"}

InClaudeWrite == pc \in {"claude_dump", "failed_claude_write"}

InGeminiWrite == pc \in {"gemini_dump", "failed_gemini_write"}

\* C6 as amended: a target file holds its complete previous content until
\* write_json opens it and its complete merged content once write_json has
\* returned; the claim does not hold while write_json runs or after it failed.
C6_Amended ==
    /\ ~InClaudeWrite =>
          IF BeforeClaudeWrite THEN claudeFile = claudeHist.orig
          ELSE Complete(claudeFile, claudeMem)
    /\ ~InGeminiWrite =>
          IF pc = "done" THEN Complete(geminiFile, geminiMem)
          ELSE geminiFile = geminiHist.orig

C6_Witness ==
    /\ pc = "failed_gemini_write"
    /\ geminiFile.state = "partial"
    /\ Complete(claudeFile, claudeMem)
    /\ claudeFile # claudeHist.orig

---------------------------------------------------------------------------
(* Claims about the Review Invoker *)

UnexpectedMsgs ==
    {UnexpectedMsg(e) : e \in {"PermissionError", "OSError", "AttributeError", "Exception"}}

\* C7: whatever is raised inside run_review (timeout, missing executable,
\* any other exception, also from writing the output file or scanning the
\* events), no fault leaves the call: it returns success = false, no output
\* and a non-empty message; the timeout, not-installed and generic messages
\* differ; the external process is started at most once.
C7_NeverPropagates ==
    /\ ~rv.propagated
    /\ rv.invocations <= 1
    /\ rv.exc # "none" =>
          /\ ~rv.result.success
          /\ rv.result.output.none
          /\ rv.result.error \notin {"", "none"}
          /\ rv.exc = "TimeoutExpired" => rv.result.error = TimeoutMsg
          /\ rv.proc.outcome = "FileNotFoundError" => rv.result.error = NotFoundMsg
          /\ rv.exc \notin {"TimeoutExpired", "FileNotFoundError"}
                => rv.result.error \in UnexpectedMsgs
    /\ TimeoutMsg # NotFoundMsg
    /\ {TimeoutMsg, NotFoundMsg} \cap UnexpectedMsgs = {}

C7_Witness ==
    /\ rv.op = "run_review"
    /\ rv.proc.outcome = "completed" /\ rv.proc.returncode = 0
    /\ rv.exc = "AttributeError"
    /\ rv.result.error = UnexpectedMsg("AttributeError")

\* The lines json.loads accepts, as records, in order.
ParsedLines(out) ==
    LET ok == SelectSeq(out, LAMBDA l : l.json \in {"scalar", "object"})
    IN [i \in 1..Len(ok) |-> Event(ok[i])]

AgentMessages(events) ==
    {i \in 1..Len(events) :
        /\ events[i].isdict /\ events[i].type = "item.completed"
        /\ events[i].item = "object" /\ events[i].itemType = "agent_message"}

LastAgentMessage(events) ==
    IF AgentMessages(events) = {} THEN "none"
    ELSE events[CHOOSE i \in AgentMessages(events) :
                    \A j \in AgentMessages(events) : j <= i].text

\* C8: in structured-event mode, for every standard output of a completed
\* invocation the call does not fail, the events are the parsed records of
\* the lines that parse, in order, and the summary is the text of the last
\* "item.completed" record whose item is an "agent_message" (none when
\* there is no such record).
C8_Summary ==
    (/\ rv.op = "run_review" /\ rv.json_output
     /\ rv.proc.outcome = "completed" /\ rv.output_file = "none")
        => /\ rv.exc = "none"
           /\ rv.result.success = (rv.proc.returncode = 0)
           /\ rv.result.has_events
           /\ rv.result.events = ParsedLines(rv.proc.stdout)
           /\ rv.result.summary = LastAgentMessage(ParsedLines(rv.proc.stdout))

\* C9: main returns 0 exactly when a known review type was given with a
\* target and the review result has success = true, and 1 otherwise.
C9_ExitStatus ==
    rv.op = "main" =>
        /\ rv.exit \in {0, 1}
        /\ rv.exit = 0 <=>
              /\ rv.argc >= 3
              /\ rv.review_type \in ReviewTypes
              /\ rv.result.success

C9_Witness ==
    /\ rv.op = "main" /\ rv.argc = 3 /\ rv.review_type = "diff"
    /\ rv.proc.outcome = "completed" /\ rv.proc.returncode = 1
    /\ rv.exit = 1

\* C10 as stated: with an output_file, the raw output is written to the
\* file only if the result has success = true.
C10_Original ==
    (rv.op = "run_review" /\ rv.output_file # "none" /\ rv.outFile.state = "written")
        => rv.result.success

\* C10 as amended: the output file is written whenever the external process
\* ran to completion and the file could be written, whatever the exit code
\* and the result's success flag; it is left untouched when the process did
\* not complete or no output_file was given.
C10_Amended ==
    rv.op = "run_review" =>
        /\ (rv.proc.outcome = "completed" /\ rv.output_file = "writable")
              => rv.outFile = [state |-> "written", text |-> rv.proc.stdout]
        /\ (rv.proc.outcome # "completed" \/ rv.output_file \in {"none", "nodir", "denied"})
              => rv.outFile.state = "unwritten"

C10_Witness ==
    /\ rv.op = "run_review" /\ rv.output_file = "writable"
    /\ rv.proc.outcome = "completed" /\ rv.proc.returncode = 1
    /\ ~rv.result.success
    /\ rv.outFile.state = "written" /\ Len(rv.outFile.text) >= 1

====
